---- MODULE Spec2Model ----
(***************************************************************************)
(* Model of browsercookie-rs (src/src/lib.rs): the CookieFinderBuilder,    *)
(* the CookieFinder it builds and CookieFinder::find, which loads the      *)
(* cookies of every (filter pair, browser) combination into one CookieJar. *)
(* firefox::load (mod firefox) is modelled from the specification's Store  *)
(* Locator, Store Reader and Attribute Matcher.                            *)
(***************************************************************************)
EXTENDS Naturals, Sequences, FiniteSets

(* ------------------------------ bounds -------------------------------- *)

\* with_regexp is called at most MaxPairs times on one builder.
MaxPairs == 2
\* The cookie stores of the machine hold at most MaxRows rows in total.
MaxRows == 2

(* ------------------------------ data ---------------------------------- *)

\* enum Browser { Firefox }
Browser == {"Firefox"}

\* enum Attribute { Name, Value, Domain, Path }
Attribute == {"Name", "Value", "Domain", "Path"}

\* Option::None of master_path
None == "None"

Names == {"a", "b"}
Values == {"v1", "v2"}
Domains == {"x", "y"}
Paths == {"/"}
Strings == Names \cup Values \cup Domains \cup Paths

\* A cookie row of a store: the value tells the records of one name apart.
Records ==
    {[name |-> "a", value |-> "v1", domain |-> "x", path |-> "/"],
     [name |-> "a", value |-> "v2", domain |-> "y", path |-> "/"],
     [name |-> "b", value |-> "v1", domain |-> "y", path |-> "/"],
     [name |-> "b", value |-> "v2", domain |-> "x", path |-> "/"]}

\* A regex is the set of strings it matches; Regex::new(".*") matches all.
DotStar == Strings

\* Regex::is_match
IsMatch(regex, text) == text \in regex

\* (Regex::new(".*").unwrap(), Attribute::Name), pushed by build()
DefaultPair == <<DotStar, "Name">>

\* The (regex, attribute) pairs callers pass to with_regexp.
CallerPairs == {<<{"a"}, "Name">>, <<{"x"}, "Domain">>}

\* Store locations of the machine; the paths callers pass to with_master_path.
Locations == {"p1", "p2"}
MasterPaths == {"p2"}

SeqsUpTo(S, n) == UNION {[1..k -> S] : k \in 0..n}

\* What a store location holds: nothing readable, a store of another schema,
\* or a cookie table.
StoreContents ==
    {[kind |-> "Unavailable", rows |-> <<>>], [kind |-> "BadSchema", rows |-> <<>>]}
    \cup {[kind |-> "Cookies", rows |-> r] : r \in SeqsUpTo(Records, MaxRows)}

\* The profile stores default discovery finds for Firefox.
ProfileLists == {<<>>, <<"p1">>, <<"p1", "p2">>}

VARIABLES
    pc,             \* "building" | "built" | "finding" | "returned" | "panicked"
    cookie_finder,  \* CookieFinder { regex_and_attribute_pairs, browsers, master_path }
    fs,             \* the content of every store location
    profiles,       \* the default profile stores of every browser
    order,          \* the order in which find iterates the HashSet browsers
    i, j,           \* find: index of the current filter pair, of the current browser
    cookie_jar,     \* find: the local CookieJar
    ret,            \* what find handed to its caller
    prev,           \* what the previous call of find handed to its caller
    err,            \* result kind of the last firefox::load
    loaded,         \* history: the (pair index, browser) combinations loaded
    readLog,        \* history: per load, the store locations it read
    inserts,        \* history: the records inserted into cookie_jar, in order
    regexp_calls,   \* history: the arguments of the with_regexp calls
    browser_calls   \* history: the arguments of the with_browser calls

vars == <<pc, cookie_finder, fs, profiles, order, i, j, cookie_jar, ret, prev, err,
          loaded, readLog, inserts, regexp_calls, browser_calls>>

findVars == <<order, i, j, cookie_jar, ret, prev, err, loaded, readLog, inserts>>

(* --------------------------- firefox::load ---------------------------- *)

\* Store Locator: the override path alone, or the discovered profile stores.
Locate(browser, override_path) ==
    IF override_path # None THEN <<override_path>> ELSE profiles[browser]

\* Store Reader: the rows of one store, or the failure kind.
Read(location) ==
    CASE fs[location].kind = "Unavailable" -> [err |-> "StoreUnavailable", rows |-> <<>>]
      [] fs[location].kind = "BadSchema"   -> [err |-> "FormatError", rows |-> <<>>]
      [] OTHER                             -> [err |-> "Ok", rows |-> fs[location].rows]

\* The field of a record an Attribute selects.
Field(record, attribute) ==
    CASE attribute = "Name"   -> record.name
      [] attribute = "Value"  -> record.value
      [] attribute = "Domain" -> record.domain
      [] OTHER                -> record.path

\* Attribute Matcher
Matches(record, regex_and_attribute) ==
    IsMatch(regex_and_attribute[1], Field(record, regex_and_attribute[2]))

\* CookieJar::add: the jar holds one cookie per name, the one added last.
Add(jar, cookie) == {c \in jar : c.name # cookie.name} \cup {cookie}

RECURSIVE AddAll(_, _)
AddAll(jar, rows) ==
    IF rows = <<>> THEN jar ELSE AddAll(Add(jar, Head(rows)), Tail(rows))

Kept(rows, regex_and_attribute) ==
    SelectSeq(rows, LAMBDA r : Matches(r, regex_and_attribute))

RECURSIVE LoadStores(_, _, _, _, _)
LoadStores(jar, locs, regex_and_attribute, read, ins) ==
    IF locs = <<>>
    THEN [err |-> "Ok", jar |-> jar, read |-> read, ins |-> ins]
    ELSE LET r == Read(Head(locs))
             kept == Kept(r.rows, regex_and_attribute)
         IN  IF r.err # "Ok"
             THEN [err |-> r.err, jar |-> jar,
                   read |-> Append(read, Head(locs)), ins |-> ins]
             ELSE LoadStores(AddAll(jar, kept), Tail(locs), regex_and_attribute,
                             Append(read, Head(locs)), ins \o kept)

\* firefox::load(&mut cookie_jar, regex_and_attribute, path) -> Result
load(jar, regex_and_attribute, path) ==
    LoadStores(jar, Locate("Firefox", path), regex_and_attribute, <<>>, <<>>)

(* ------------------------ CookieFinderBuilder ------------------------- *)

\* #[derive(Default)] CookieFinder
DefaultFinder ==
    [regex_and_attribute_pairs |-> <<>>, browsers |-> {}, master_path |-> None]

\* Variants of the build() defaults: none injected, or the pair always pushed.
DefaultedPairsNone(pairs) == pairs

DefaultedPairsAlways(pairs) == Append(pairs, DefaultPair)

DefaultedBrowsersNone(browsers) == browsers

\* build(): the default pair is pushed when no pair was added.
DefaultedPairs(pairs) ==
    IF pairs = <<>> THEN <<DefaultPair>> ELSE pairs

\* build(): every Browser is inserted when no browser was added.
DefaultedBrowsers(browsers) ==
    IF browsers = {} THEN Browser ELSE browsers

\* with_regexp: Vec::push
Push(pairs, pair) == Append(pairs, pair)

with_regexp(regex, attribute) ==
    /\ pc = "building"
    /\ Len(regexp_calls) < MaxPairs
    /\ cookie_finder' =
         [cookie_finder EXCEPT !.regex_and_attribute_pairs = Push(@, <<regex, attribute>>)]
    /\ regexp_calls' = Append(regexp_calls, <<regex, attribute>>)
    /\ UNCHANGED <<pc, fs, profiles, findVars, browser_calls>>

with_browser(browser) ==
    /\ pc = "building"
    /\ cookie_finder' = [cookie_finder EXCEPT !.browsers = @ \cup {browser}]
    /\ browser_calls' = browser_calls \cup {browser}
    /\ UNCHANGED <<pc, fs, profiles, findVars, regexp_calls>>

with_master_path(master_path) ==
    /\ pc = "building"
    /\ cookie_finder' = [cookie_finder EXCEPT !.master_path = master_path]
    /\ UNCHANGED <<pc, fs, profiles, findVars, regexp_calls, browser_calls>>

build ==
    /\ pc = "building"
    /\ cookie_finder' =
         [cookie_finder EXCEPT
            !.regex_and_attribute_pairs = DefaultedPairs(@),
            !.browsers = DefaultedBrowsers(@)]
    /\ pc' = "built"
    /\ UNCHANGED <<fs, profiles, findVars, regexp_calls, browser_calls>>

(* ------------------------- CookieFinder::find ------------------------- *)

\* Variant: an iteration that may stop before it has visited every element.
IterOrdersPartial(set) ==
    UNION {{s \in [1..n -> set] : \A a, b \in 1..n : a # b => s[a] # s[b]} :
             n \in 0..Cardinality(set)}

\* Iterating a HashSet visits every element once, in an unspecified order.
IterOrders(set) ==
    {s \in [1..Cardinality(set) -> set] :
        \A a, b \in 1..Cardinality(set) : a # b => s[a] # s[b]}

\* Variant: the Result of load is dropped instead of unwrapped.
ExpectIgnores(result) == FALSE

\* .expect(..) on the Result of load panics on every Err.
ExpectPanics(result) == result # "Ok"

\* The path find hands to firefox::load.
LoadPath(finder) == None

\* Variants: the pairs visited last to first, or the first pair visited every time.
PairAtReversed(finder, k) ==
    finder.regex_and_attribute_pairs[Len(finder.regex_and_attribute_pairs) - k + 1]

PairAtFirst(finder, k) == finder.regex_and_attribute_pairs[1]

\* for regex_and_attribute in &self.regex_and_attribute_pairs: the k-th pair visited.
PairAt(finder, k) == finder.regex_and_attribute_pairs[k]

\* let mut cookie_jar = CookieJar::new()
NewJar == {}

NoRet == [kind |-> "none", jar |-> {}]

Finished == pc \in {"returned", "panicked"}

\* find(&self) is called on the built finder, and may be called on it again.
find_start ==
    /\ \/ pc = "built"
       \/ Finished /\ prev = NoRet
    /\ pc' = "finding"
    /\ prev' = ret
    /\ ret' = NoRet
    /\ cookie_jar' = NewJar
    /\ order' \in IterOrders(cookie_finder.browsers)
    /\ i' = 1
    /\ j' = 1
    /\ err' = "Ok"
    /\ loaded' = <<>>
    /\ readLog' = <<>>
    /\ inserts' = <<>>
    /\ UNCHANGED <<cookie_finder, fs, profiles, regexp_calls, browser_calls>>

\* Some (filter pair, browser) combination is still to be loaded.
InLoop == i <= Len(cookie_finder.regex_and_attribute_pairs) /\ j <= Len(order)

find_load ==
    /\ pc = "finding"
    /\ InLoop
    /\ LET r == load(cookie_jar, PairAt(cookie_finder, i), LoadPath(cookie_finder))
       IN  /\ cookie_jar' = r.jar
           /\ err' = r.err
           /\ loaded' = Append(loaded, <<PairAt(cookie_finder, i), order[j]>>)
           /\ readLog' = Append(readLog, r.read)
           /\ inserts' = inserts \o r.ins
           /\ IF ExpectPanics(r.err)
              THEN /\ pc' = "panicked"
                   /\ ret' = [kind |-> "panic", jar |-> {}]
                   /\ UNCHANGED <<i, j>>
              ELSE /\ UNCHANGED <<pc, ret>>
                   /\ IF j < Len(order)
                      THEN j' = j + 1 /\ i' = i
                      ELSE j' = 1 /\ i' = i + 1
    /\ UNCHANGED <<cookie_finder, fs, profiles, order, prev, regexp_calls, browser_calls>>

find_return ==
    /\ pc = "finding"
    /\ ~InLoop
    /\ pc' = "returned"
    /\ ret' = [kind |-> "jar", jar |-> cookie_jar]
    /\ UNCHANGED <<cookie_finder, fs, profiles, order, i, j, cookie_jar, prev, err, loaded,
                   readLog, inserts, regexp_calls, browser_calls>>

(* --------------------------- specification ---------------------------- *)

RECURSIVE TotalRows(_, _)
TotalRows(f, locs) ==
    IF locs = {} THEN 0
    ELSE LET l == CHOOSE x \in locs : TRUE
         IN  Len(f[l].rows) + TotalRows(f, locs \ {l})

Init ==
    /\ pc = "building"
    /\ cookie_finder = DefaultFinder
    /\ fs \in {f \in [Locations -> StoreContents] : TotalRows(f, Locations) <= MaxRows}
    /\ profiles \in [Browser -> ProfileLists]
    /\ order = <<>>
    /\ i = 1
    /\ j = 1
    /\ cookie_jar = {}
    /\ ret = NoRet
    /\ prev = NoRet
    /\ err = "Ok"
    /\ loaded = <<>>
    /\ readLog = <<>>
    /\ inserts = <<>>
    /\ regexp_calls = <<>>
    /\ browser_calls = {}

Next ==
    \/ \E p \in CallerPairs : with_regexp(p[1], p[2])
    \/ \E b \in Browser : with_browser(b)
    \/ \E m \in MasterPaths : with_master_path(m)
    \/ build
    \/ find_start
    \/ find_load
    \/ find_return

Spec == Init /\ [][Next]_vars

(* ------------------------------ claims -------------------------------- *)

Pairs == cookie_finder.regex_and_attribute_pairs

\* The (pair, browser) combinations in find's order: pairs outside, browsers inside.
AllCombos(finder, ord) ==
    LET n == Len(finder.regex_and_attribute_pairs)
        m == Len(ord)
    IN  [k \in 1..(n * m) |->
            <<finder.regex_and_attribute_pairs[((k - 1) \div m) + 1],
              ord[((k - 1) % m) + 1]>>]

IsPrefix(s, t) == Len(s) <= Len(t) /\ \A k \in 1..Len(s) : s[k] = t[k]

RowsOf(location) == {fs[location].rows[r] : r \in 1..Len(fs[location].rows)}

\* The records of the profile stores of the finder's browsers.
StoredRecords ==
    UNION {UNION {RowsOf(profiles[b][k]) : k \in 1..Len(profiles[b])} :
             b \in cookie_finder.browsers}

MatchesAny(record) == \E k \in 1..Len(Pairs) : Matches(record, Pairs[k])

NamesOf(records) == {r.name : r \in records}

\* The index of the last insertion of a cookie named name.
LastIndex(seq, name) ==
    CHOOSE k \in 1..Len(seq) :
        seq[k].name = name /\ \A l \in (k + 1)..Len(seq) : seq[l].name # name

\* C1: after any with_regexp, with_browser and with_master_path calls (none
\* included) and build(), the CookieFinder has at least one filter pair and at
\* least one browser.
C1_BuiltHasPairAndBrowser ==
    pc # "building" => Len(Pairs) >= 1 /\ cookie_finder.browsers # {}

\* C1 witness: built from a builder that got only a master path.
C1_Witness ==
    /\ pc = "built"
    /\ regexp_calls = <<>>
    /\ browser_calls = {}
    /\ cookie_finder.master_path # None
    /\ Len(Pairs) = 1
    /\ cookie_finder.browsers = Browser

\* C2: build() injects the default pair (".*", Name) if and only if with_regexp
\* was never called: with no call the built pairs are exactly that pair, with
\* calls they are exactly the caller's pairs in call order, nothing appended.
C2_DefaultPairIffNoRegexp ==
    pc # "building" =>
        Pairs = IF regexp_calls = <<>> THEN <<DefaultPair>> ELSE regexp_calls

\* C2 witness: built after two with_regexp calls with different pairs.
C2_Witness ==
    /\ pc = "built"
    /\ Len(regexp_calls) = 2
    /\ regexp_calls[1] # regexp_calls[2]
    /\ Pairs = regexp_calls

\* C3: the built browser set is every supported Browser when with_browser was
\* never called, and exactly the browsers passed to with_browser otherwise.
C3_BrowserSet ==
    pc # "building" =>
        cookie_finder.browsers = IF browser_calls = {} THEN Browser ELSE browser_calls

\* C3 witness: built without a with_browser call, every Browser is in the set.
C3_Witness ==
    /\ pc = "built"
    /\ browser_calls = {}
    /\ regexp_calls # <<>>
    /\ cookie_finder.browsers = Browser

\* C4: with an override path set, every load of find() reads exactly one store
\* location, the override path; with none set, the discovered profile stores.
C4_OverridePathIsRead ==
    \A k \in 1..Len(readLog) :
        IF cookie_finder.master_path # None
        THEN readLog[k] = <<cookie_finder.master_path>>
        ELSE IsPrefix(readLog[k], profiles[loaded[k][2]])

\* C5: when no store has a foreign schema, so that stores are at worst absent
\* or inaccessible, find() does not fail and processes every combination.
C5_UnavailableStoreAbsorbed ==
    (\A l \in Locations : fs[l].kind # "BadSchema") =>
        /\ pc # "panicked"
        /\ pc = "returned" => loaded = AllCombos(cookie_finder, order)

\* C6: when a load meets a store of a foreign schema, find() returns an error
\* result of kind FormatError to its caller.
C6_FormatErrorReturned ==
    (Finished /\ err = "FormatError") => (pc = "returned" /\ ret.kind = "error")

\* C7: the returned jar holds at most one record per name, the record of a name
\* is the one inserted last, and the combinations were loaded once each, pairs
\* in their configured order outside, browsers inside.
C7_LastWriteWins ==
    pc = "returned" =>
        /\ \A c1, c2 \in ret.jar : c1.name = c2.name => c1 = c2
        /\ NamesOf(ret.jar) = {inserts[k].name : k \in 1..Len(inserts)}
        /\ \A c \in ret.jar : c = inserts[LastIndex(inserts, c.name)]
        /\ loaded = AllCombos(cookie_finder, order)

\* C7 witness: two stores hold a cookie of one name with different values, and
\* two different pairs were loaded.
C7_Witness ==
    /\ pc = "returned"
    /\ Len(Pairs) = 2
    /\ Pairs[1] # Pairs[2]
    /\ \E c \in RowsOf("p1"), d \in RowsOf("p2") :
          /\ c.name = d.name
          /\ c.value # d.value
          /\ d \in ret.jar
    /\ \E k, l \in 1..Len(inserts) :
          k < l /\ inserts[k].name = inserts[l].name /\ inserts[k] # inserts[l]

\* C8: when every store read succeeds, the names in the output are the names of
\* the stored records that match at least one configured pair; a finder built
\* with no filter returns every stored name.
C8_OutputIsUnionOfMatches ==
    pc = "returned" =>
        /\ ret.jar \subseteq {r \in StoredRecords : MatchesAny(r)}
        /\ NamesOf(ret.jar) = NamesOf({r \in StoredRecords : MatchesAny(r)})
        /\ regexp_calls = <<>> => NamesOf(ret.jar) = NamesOf(StoredRecords)

\* C8 witness: two records are returned, each matching one pair only, and a
\* third name is not involved: the Name pair and the Domain pair are OR-ed.
C8_Witness ==
    /\ pc = "returned"
    /\ Len(Pairs) = 2
    /\ \E c, d \in ret.jar :
          /\ Matches(c, Pairs[1]) /\ ~Matches(c, Pairs[2])
          /\ Matches(d, Pairs[2]) /\ ~Matches(d, Pairs[1])

\* C9: a find() in which a load fails hands no collection to its caller; a
\* collection is handed over only as the merge of every combination.
C9_NoPartialCollection ==
    /\ err # "Ok" => ret.kind # "jar"
    /\ ret.kind = "jar" =>
          /\ loaded = AllCombos(cookie_finder, order)
          /\ ret.jar = cookie_jar
    /\ pc = "panicked" => ret = [kind |-> "panic", jar |-> {}]

\* C9 witness: records were inserted before a later store failed.
C9_Witness ==
    /\ pc = "panicked"
    /\ inserts # <<>>
    /\ cookie_jar # {}
    /\ ret.kind = "panic"

====
